---- MODULE Spec2Model ----
(***************************************************************************)
(* Model of the Breakway Gas backend (src/public/user/server.js): the      *)
(* in-memory db (users, orders, supportTickets), the two middlewares and   *)
(* the twelve route handlers.                                              *)
(*                                                                         *)
(* JavaScript values.  A JS object is a TLA+ record whose fields are JS    *)
(* values; every other JS value is a record tagged by its type in field t: *)
(* a string is its sequence of characters, so that String.includes and    *)
(* template strings are computed and not assumed.  Objects of the program  *)
(* never have a property named "t".                                        *)
(***************************************************************************)
EXTENDS Integers, Sequences, FiniteSets, TLC

VARIABLES users, orders, supportTickets, clock, req, resp, registered, inflight

vars == <<users, orders, supportTickets, clock, req, resp, registered, inflight>>

stores == <<users, orders, supportTickets>>

\* ------------------------------------------------------------------ bounds
MaxUsers == 3
MaxOrders == 2
MaxTickets == 1
FirstClock == 9
MaxTicks == 1
MaxInflight == 3
MaxRecords == 3

\* ------------------------------------------------------------- JS values
Str(s) == [t |-> "string", s |-> s]
Lit(m) == [t |-> "string", lit |-> m]
Num(n) == [t |-> "number", n |-> n]
Bool(b) == [t |-> "boolean", b |-> b]
Arr(a) == [t |-> "array", a |-> a]
Null == [t |-> "null"]
Undefined == [t |-> "undefined"]
EmptyObject == [k \in {} |-> Undefined]

\* typeof v is "object" and v is not null: an array or an object
IsObject(v) == "t" \notin DOMAIN v \/ v.t = "array"

\* a === b, where b was parsed from the request being handled and a is held
\* by the db or is a literal: primitives are compared by value, an array or
\* an object only with itself, and what a request carries is never an object
\* the db already holds
StrictEquals(a, b) == ~IsObject(a) /\ a = b

Digits == <<"0", "1", "2", "3", "4", "5", "6", "7", "8", "9">>

\* the own enumerable properties of a request body, which express.json()
\* parses to an object or an array: those of the object, the indexes "0",
\* "1", ... of the array (of at most ten elements)
Props(o) ==
    IF "t" \notin DOMAIN o THEN o
    ELSE IF o.t = "array"
         THEN [k \in {Digits[i] : i \in DOMAIN o.a} |->
                  o.a[CHOOSE i \in DOMAIN o.a : Digits[i] = k]]
         ELSE EmptyObject

\* o.k : reading a property the object does not have yields undefined
Get(o, k) == IF k \in DOMAIN Props(o) THEN Props(o)[k] ELSE Undefined

\* { ...o, k1: v1, ... } : later properties override earlier ones
Spread(o, props) ==
    [k \in (DOMAIN Props(o)) \cup (DOMAIN props) |->
        IF k \in DOMAIN props THEN props[k] ELSE Props(o)[k]]

\* const { k, ...rest } = o
Rest(o, k) == [x \in (DOMAIN o) \ {k} |-> o[x]]

\* !v
Falsy(v) == v \in {Undefined, Null, Str(<<>>), Bool(FALSE), Num(0)}

\* v has a method includes: v is a string or an array
HasIncludes(v) == "t" \in DOMAIN v /\ v.t \in {"string", "array"}

\* contact.includes(c) for a one-character c: String.prototype.includes on a
\* string, Array.prototype.includes on an array
Includes(v, c) ==
    IF v.t = "array" THEN \E i \in DOMAIN v.a : v.a[i] = Str(<<c>>)
    ELSE \E i \in 1..Len(v.s) : v.s[i] = c

\* String(n) for a non-negative integer n
RECURSIVE NumToString(_)
NumToString(n) == IF n < 10 THEN <<Digits[n + 1]>>
                  ELSE NumToString(n \div 10) \o <<Digits[(n % 10) + 1]>>

\* three-digit zero padding of the millisecond field
Pad3(n) == <<Digits[(n \div 100) + 1], Digits[((n \div 10) % 10) + 1], Digits[(n % 10) + 1]>>

\* new Date(ms).toISOString(), for readings within the first second of the epoch
ToISOString(ms) ==
    Str(<<"1", "9", "7", "0", "-", "0", "1", "-", "0", "1", "T",
          "0", "0", ":", "0", "0", ":", "0", "0", ".">> \o Pad3(ms % 1000) \o <<"Z">>)

\* The array methods taking a predicate get the set of the indexes whose
\* element satisfies it (hits).
\* array.findIndex(P): the first such index; TLA+ sequences are 1-based, -1
\* still means not found
FindIndex(hits) ==
    IF hits = {} THEN -1 ELSE CHOOSE i \in hits : \A j \in hits : i <= j

\* array.find(P): the first element satisfying P, undefined when there is none
Find(s, hits) == IF FindIndex(hits) = -1 THEN Undefined ELSE s[FindIndex(hits)]

\* array.some(P)
Some(hits) == hits # {}

\* array.filter(P): the elements satisfying P, in the order of the array
Filter(s, hits) ==
    LET kept[n \in 0..Len(s)] ==
            IF n = 0 THEN <<>>
            ELSE IF n \in hits THEN Append(kept[n - 1], s[n]) ELSE kept[n - 1]
    IN kept[Len(s)]

\* JSON.stringify as seen by the client: a property whose value is undefined
\* is dropped, an undefined array element becomes null
RECURSIVE Json(_)
Json(v) ==
    IF "t" \in DOMAIN v
    THEN IF v.t = "array"
         THEN Arr([i \in DOMAIN v.a |-> IF v.a[i] = Undefined THEN Null ELSE Json(v.a[i])])
         ELSE v
    ELSE [k \in {x \in DOMAIN v : v[x] # Undefined} |-> Json(v[k])]

\* res.status(code).json(body)
Res(code, body) == [status |-> code, body |-> Json(body)]

\* -------------------------------------------------------------- the db
AdminId == Str(<<"U", "-", "1", "6", "7", "0", "0", "0", "0", "0", "0", "0", "0", "0", "0">>)

AdminUser ==
    [id |-> AdminId,
     name |-> Str(<<"A", "d", "m", "i", "n">>),
     email |-> Str(<<"a", "d", "m", "i", "n", "@", "b", "r", "e", "a", "k", "w", "a", "y", ".", "c", "o", "m">>),
     password |-> Str(<<"a", "d", "m", "i", "n">>),
     isAdmin |-> Bool(TRUE)]

\* ------------------------------------------------------------ middleware
\* authMiddleware: the response that ends the request, or next() with req.user
authMiddleware(us, userId) ==
    IF Falsy(userId)
    THEN [next |-> FALSE, res |-> Res(401, [message |-> Lit("Unauthorized: User ID is required.")])]
    ELSE LET user == Find(us, {i \in DOMAIN us : StrictEquals(us[i].id, userId)})
         IN IF user = Undefined
            THEN [next |-> FALSE, res |-> Res(401, [message |-> Lit("Unauthorized: User not found.")])]
            ELSE [next |-> TRUE, user |-> user]

\* variant: only the presence of req.user is tested
adminMiddlewareAnyUser(user) == ~Falsy(user)

\* adminMiddleware: TRUE when it calls next()
adminMiddleware(user) == ~(Falsy(user) \/ Falsy(Get(user, "isAdmin")))

Forbidden == Res(403, [message |-> Lit("Forbidden: Admin access required.")])

\* ---------------------------------------------------------------- requests
\* what the last handled request carried: the route, the x-user-id header,
\* the JSON body and the :orderId path parameter
\* the db holds at most MaxRecords records over its three arrays
Room(us, os, ts) == Len(us) + Len(os) + Len(ts) <= MaxRecords

Request(op, userId, body, orderId) ==
    [op |-> op, userId |-> userId, body |-> body, orderId |-> orderId]

NoRequest == Request("none", Undefined, EmptyObject, Undefined)
NoResponse == [status |-> 0, body |-> EmptyObject]

\* ------------------------------------------------- POST /api/users/register
\* variant: the uniqueness check always compares the email field
ContactExistsEmailOnly(us, contact, isEmail) ==
    Some({i \in DOMAIN us : StrictEquals(Get(us[i], "email"), contact)})

\* variant: the check runs on a snapshot of the users taken before the latest insert
ContactExistsStale(us, contact, isEmail) ==
    Some({i \in 1..(Len(us) - 1) :
             StrictEquals(IF isEmail THEN Get(us[i], "email") ELSE Get(us[i], "mobile"), contact)})

\* the email/mobile uniqueness check of Register
ContactExists(us, contact, isEmail) ==
    Some({i \in DOMAIN us :
             StrictEquals(IF isEmail THEN Get(us[i], "email") ELSE Get(us[i], "mobile"), contact)})

\* contact.includes is not a function: the handler throws a TypeError, which
\* the default error handler of express answers with status 500
InternalServerError == Res(500, Lit("TypeError: contact.includes is not a function"))

\* `U-${Date.now()}`
NewUserId(now) == Str(<<"U", "-">> \o NumToString(now))

NewUser(name, contact, password, isEmail, now) ==
    [id |-> NewUserId(now),
     name |-> name,
     password |-> password,
     email |-> IF isEmail THEN contact ELSE Null,
     mobile |-> IF ~isEmail THEN contact ELSE Null,
     address |-> Str(<<>>),
     profilePic |-> Str(<<>>),
     isAdmin |-> Bool(FALSE)]

\* variant: the new user is pushed before the uniqueness check answers
RegisterHandlerInsertFirst(us, body, now) ==
    LET name == Get(body, "name")
        contact == Get(body, "contact")
        password == Get(body, "password")
    IN IF Falsy(name) \/ Falsy(contact) \/ Falsy(password)
       THEN [users |-> us, res |-> Res(400, [message |-> Lit("Please fill all fields.")])]
       ELSE IF ~HasIncludes(contact)
       THEN [users |-> us, res |-> InternalServerError]
       ELSE LET isEmail == Includes(contact, "@")
                newUser == NewUser(name, contact, password, isEmail, now)
            IN IF ContactExists(us, contact, isEmail)
               THEN [users |-> Append(us, newUser),
                     res |-> Res(409, [message |-> Lit("An account with this mobile/email already exists.")])]
               ELSE [users |-> Append(us, newUser),
                     res |-> Res(201, [message |-> Lit("Account created successfully!"),
                                       user |-> [id |-> newUser.id, name |-> newUser.name]])]

\* the handler on store us: the users array it leaves and its response
RegisterHandler(us, body, now) ==
    LET name == Get(body, "name")
        contact == Get(body, "contact")
        password == Get(body, "password")
    IN IF Falsy(name) \/ Falsy(contact) \/ Falsy(password)
       THEN [users |-> us, res |-> Res(400, [message |-> Lit("Please fill all fields.")])]
       ELSE IF ~HasIncludes(contact)
       THEN [users |-> us, res |-> InternalServerError]
       ELSE LET isEmail == Includes(contact, "@")
            IN IF ContactExists(us, contact, isEmail)
               THEN [users |-> us,
                     res |-> Res(409, [message |-> Lit("An account with this mobile/email already exists.")])]
               ELSE LET newUser == NewUser(name, contact, password, isEmail, now)
                    IN [users |-> Append(us, newUser),
                        res |-> Res(201, [message |-> Lit("Account created successfully!"),
                                          user |-> [id |-> newUser.id, name |-> newUser.name]])]

Register(body, now) ==
    LET r == RegisterHandler(users, body, now)
    IN /\ Len(r.users) <= MaxUsers
       /\ Room(r.users, orders, supportTickets)
       /\ users' = r.users
       /\ resp' = r.res
       /\ req' = Request("register", Undefined, body, Undefined)
       /\ clock' = IF r.res.status = 201 THEN now ELSE clock
       /\ registered' = IF r.res.status = 201 THEN registered \cup {Get(body, "contact")}
                        ELSE registered
       /\ UNCHANGED <<orders, supportTickets, inflight>>

\* ---------------------------------------------------- POST /api/users/login
LoginMatch(u, contact, password) ==
    /\ \/ StrictEquals(Get(u, "email"), contact)
       \/ StrictEquals(Get(u, "mobile"), contact)
    /\ StrictEquals(Get(u, "password"), password)

LoginHandler(us, body) ==
    LET contact == Get(body, "contact")
        password == Get(body, "password")
        user == Find(us, {i \in DOMAIN us : LoginMatch(us[i], contact, password)})
    IN IF ~Falsy(user)
       THEN Res(200, [message |-> Lit("Login successful!"),
                      user |-> [id |-> Get(user, "id"), name |-> Get(user, "name"),
                                isAdmin |-> Bool(~Falsy(Get(user, "isAdmin")))]])
       ELSE Res(401, [message |-> Lit("Incorrect mobile number/email or password.")])

Login(body) ==
    /\ resp' = LoginHandler(users, body)
    /\ req' = Request("login", Undefined, body, Undefined)
    /\ UNCHANGED <<users, orders, supportTickets, clock, registered, inflight>>

\* --------------------------------------------------- GET /api/users/profile
\* variant: the whole record is sent
GetProfileHandlerWholeRecord(user) == Res(200, user)

GetProfileHandler(user) == Res(200, Rest(user, "password"))

GetProfile(userId) ==
    LET a == authMiddleware(users, userId)
    IN /\ resp' = IF a.next THEN GetProfileHandler(a.user) ELSE a.res
       /\ req' = Request("getProfile", userId, EmptyObject, Undefined)
       /\ UNCHANGED <<users, orders, supportTickets, clock, registered, inflight>>

\* --------------------------------------------------- PUT /api/users/profile
\* variant: a property the body omits keeps its stored value
UpdateProfileHandlerMerge(us, user, body) ==
    LET userIndex == FindIndex({i \in DOMAIN us : StrictEquals(us[i].id, user.id)})
        fields == {"name", "email", "address", "profilePic"} \cap DOMAIN body
    IN IF userIndex # -1
       THEN LET updated == Spread(us[userIndex], [k \in fields |-> body[k]])
            IN [users |-> [us EXCEPT ![userIndex] = updated],
                res |-> Res(200, [message |-> Lit("Profile updated successfully!"),
                                  user |-> updated])]
       ELSE [users |-> us, res |-> Res(404, [message |-> Lit("User not found.")])]

\* variant: the whole body is spread over the stored record
UpdateProfileHandlerSpreadBody(us, user, body) ==
    LET userIndex == FindIndex({i \in DOMAIN us : StrictEquals(us[i].id, user.id)})
    IN IF userIndex # -1
       THEN LET updated == Spread(us[userIndex],
                                  Spread(body,
                                         [name |-> Get(body, "name"), email |-> Get(body, "email"),
                                          address |-> Get(body, "address"),
                                          profilePic |-> Get(body, "profilePic")]))
            IN [users |-> [us EXCEPT ![userIndex] = updated],
                res |-> Res(200, [message |-> Lit("Profile updated successfully!"),
                                  user |-> updated])]
       ELSE [users |-> us, res |-> Res(404, [message |-> Lit("User not found.")])]

UpdateProfileHandler(us, user, body) ==
    LET userIndex == FindIndex({i \in DOMAIN us : StrictEquals(us[i].id, user.id)})
    IN IF userIndex # -1
       THEN LET updated == Spread(us[userIndex],
                                  [name |-> Get(body, "name"), email |-> Get(body, "email"),
                                   address |-> Get(body, "address"),
                                   profilePic |-> Get(body, "profilePic")])
            IN [users |-> [us EXCEPT ![userIndex] = updated],
                res |-> Res(200, [message |-> Lit("Profile updated successfully!"),
                                  user |-> updated])]
       ELSE [users |-> us, res |-> Res(404, [message |-> Lit("User not found.")])]

UpdateProfile(userId, body) ==
    LET a == authMiddleware(users, userId)
        r == UpdateProfileHandler(users, a.user, body)
    IN /\ users' = IF a.next THEN r.users ELSE users
       /\ resp' = IF a.next THEN r.res ELSE a.res
       /\ req' = Request("updateProfile", userId, body, Undefined)
       /\ UNCHANGED <<orders, supportTickets, clock, registered, inflight>>

\* ------------------------------------------------------------ order routes
Placed == Str(<<"p", "l", "a", "c", "e", "d">>)
Cancelled == Str(<<"c", "a", "n", "c", "e", "l", "l", "e", "d">>)

\* `ORD-${Date.now()}`
NewOrderId(now) == Str(<<"O", "R", "D", "-">> \o NumToString(now))

\* variant: the body is spread last, so that its properties win
OrderDataBodyLast(body, user, now) ==
    Spread([userId |-> user.id, id |-> NewOrderId(now), status |-> Placed], body)

\* POST /api/orders
OrderData(body, user, now) ==
    Spread(body, [userId |-> user.id, id |-> NewOrderId(now), status |-> Placed])

CreateOrder(userId, body, now) ==
    LET a == authMiddleware(users, userId)
        orderData == OrderData(body, a.user, now)
    IN /\ a.next => Len(orders) < MaxOrders /\ Room(users, Append(orders, orderData), supportTickets)
       /\ orders' = IF a.next THEN Append(orders, orderData) ELSE orders
       /\ resp' = IF a.next THEN Res(201, orderData) ELSE a.res
       /\ clock' = IF a.next THEN now ELSE clock
       /\ req' = Request("createOrder", userId, body, Undefined)
       /\ UNCHANGED <<users, supportTickets, registered, inflight>>

\* variant: the list is not filtered by owner
UserOrdersUnfiltered(os, user) == os

\* variant: the newest order comes first
UserOrdersNewestFirst(os, user) ==
    LET own == Filter(os, {i \in DOMAIN os : StrictEquals(os[i].userId, user.id)})
    IN [k \in 1..Len(own) |-> own[Len(own) + 1 - k]]

\* GET /api/orders
UserOrders(os, user) == Filter(os, {i \in DOMAIN os : StrictEquals(os[i].userId, user.id)})

ListOrders(userId) ==
    LET a == authMiddleware(users, userId)
    IN /\ resp' = IF a.next THEN Res(200, Arr(UserOrders(orders, a.user))) ELSE a.res
       /\ req' = Request("listOrders", userId, EmptyObject, Undefined)
       /\ UNCHANGED <<users, orders, supportTickets, clock, registered, inflight>>

\* variant: the status of the order found is not looked at
CancelOrderHandlerAnyStatus(os, user, orderId) ==
    LET orderIndex == FindIndex({i \in DOMAIN os : /\ StrictEquals(os[i].id, orderId)
                                                   /\ StrictEquals(os[i].userId, user.id)})
    IN IF orderIndex # -1
       THEN LET cancelled == [os EXCEPT ![orderIndex].status = Cancelled]
            IN [orders |-> cancelled, res |-> Res(200, cancelled[orderIndex])]
       ELSE [orders |-> os,
             res |-> Res(404, [message |-> Lit("Order not found or you do not have permission to cancel it.")])]

\* variant: a cancelled order is taken out of the array
CancelOrderHandlerRemoves(os, user, orderId) ==
    LET orderIndex == FindIndex({i \in DOMAIN os : /\ StrictEquals(os[i].id, orderId)
                                                   /\ StrictEquals(os[i].userId, user.id)})
    IN IF orderIndex # -1
       THEN IF StrictEquals(Placed, os[orderIndex].status)
            THEN [orders |-> SubSeq(os, 1, orderIndex - 1) \o SubSeq(os, orderIndex + 1, Len(os)),
                  res |-> Res(200, [os[orderIndex] EXCEPT !.status = Cancelled])]
            ELSE [orders |-> os,
                  res |-> Res(400, [message |-> Lit("Only orders with \"placed\" status can be cancelled.")])]
       ELSE [orders |-> os,
             res |-> Res(404, [message |-> Lit("Order not found or you do not have permission to cancel it.")])]

\* PUT /api/orders/:orderId/cancel
CancelOrderHandler(os, user, orderId) ==
    LET orderIndex == FindIndex({i \in DOMAIN os : /\ StrictEquals(os[i].id, orderId)
                                                   /\ StrictEquals(os[i].userId, user.id)})
    IN IF orderIndex # -1
       THEN IF StrictEquals(Placed, os[orderIndex].status)
            THEN LET cancelled == [os EXCEPT ![orderIndex].status = Cancelled]
                 IN [orders |-> cancelled, res |-> Res(200, cancelled[orderIndex])]
            ELSE [orders |-> os,
                  res |-> Res(400, [message |-> Lit("Only orders with \"placed\" status can be cancelled.")])]
       ELSE [orders |-> os,
             res |-> Res(404, [message |-> Lit("Order not found or you do not have permission to cancel it.")])]

CancelOrder(userId, orderId) ==
    LET a == authMiddleware(users, userId)
        r == CancelOrderHandler(orders, a.user, orderId)
    IN /\ orders' = IF a.next THEN r.orders ELSE orders
       /\ resp' = IF a.next THEN r.res ELSE a.res
       /\ req' = Request("cancelOrder", userId, EmptyObject, orderId)
       /\ UNCHANGED <<users, supportTickets, clock, registered, inflight>>

\* ------------------------------------------------------------ admin routes
\* the response of a route guarded by authMiddleware and adminMiddleware
AdminRoute(us, userId, data) ==
    LET a == authMiddleware(us, userId)
    IN IF ~a.next THEN a.res
       ELSE IF ~adminMiddleware(a.user) THEN Forbidden
       ELSE Res(200, data)

StatsData(us, os) == [userCount |-> Num(Len(us)), orderCount |-> Num(Len(os))]

UsersData(us) == Arr([i \in DOMAIN us |-> Rest(us[i], "password")])

AdminStats(userId) ==
    /\ resp' = AdminRoute(users, userId, StatsData(users, orders))
    /\ req' = Request("adminStats", userId, EmptyObject, Undefined)
    /\ UNCHANGED <<users, orders, supportTickets, clock, registered, inflight>>

AdminUsers(userId) ==
    /\ resp' = AdminRoute(users, userId, UsersData(users))
    /\ req' = Request("adminUsers", userId, EmptyObject, Undefined)
    /\ UNCHANGED <<users, orders, supportTickets, clock, registered, inflight>>

AdminOrders(userId) ==
    /\ resp' = AdminRoute(users, userId, Arr(orders))
    /\ req' = Request("adminOrders", userId, EmptyObject, Undefined)
    /\ UNCHANGED <<users, orders, supportTickets, clock, registered, inflight>>

\* ---------------------------------------------------- support ticket routes
Open == Str(<<"o", "p", "e", "n">>)
Customer == Str(<<"c", "u", "s", "t", "o", "m", "e", "r">>)

\* `T-${Date.now()}`
NewTicketId(now) == Str(<<"T", "-">> \o NumToString(now))

\* GET /api/support/tickets
UserTickets(ts, user) == Filter(ts, {i \in DOMAIN ts : StrictEquals(ts[i].userId, user.id)})

ListTickets(userId) ==
    LET a == authMiddleware(users, userId)
    IN /\ resp' = IF a.next THEN Res(200, Arr(UserTickets(supportTickets, a.user))) ELSE a.res
       /\ req' = Request("listTickets", userId, EmptyObject, Undefined)
       /\ UNCHANGED <<users, orders, supportTickets, clock, registered, inflight>>

\* variant: the thread starts empty
NewTicketEmptyThread(user, message, now, created, at) ==
    [id |-> NewTicketId(now),
     userId |-> user.id,
     name |-> Get(user, "name"),
     message |-> message,
     status |-> Open,
     createdAt |-> ToISOString(created),
     thread |-> Arr(<<>>)]

\* POST /api/support/tickets: the handler reads the clock three times, for
\* the id (now), for createdAt (created) and for the thread entry (at)
NewTicket(user, message, now, created, at) ==
    [id |-> NewTicketId(now),
     userId |-> user.id,
     name |-> Get(user, "name"),
     message |-> message,
     status |-> Open,
     createdAt |-> ToISOString(created),
     thread |-> Arr(<<[from |-> Customer, text |-> message, at |-> ToISOString(at)]>>)]

SubmitTicket(userId, body, now, created, at) ==
    LET a == authMiddleware(users, userId)
        newTicket == NewTicket(a.user, Get(body, "message"), now, created, at)
    IN /\ a.next => Len(supportTickets) < MaxTickets /\ Room(users, orders, Append(supportTickets, newTicket))
       /\ supportTickets' = IF a.next THEN Append(supportTickets, newTicket) ELSE supportTickets
       /\ resp' = IF a.next THEN Res(201, newTicket) ELSE a.res
       /\ clock' = IF a.next THEN at ELSE clock
       /\ req' = Request("submitTicket", userId, body, Undefined)
       /\ UNCHANGED <<users, orders, registered, inflight>>

\* ------------------------------------- concurrent Register requests in flight
\* express.json() reads the body of a request asynchronously, so several
\* requests can be in flight at once; a route handler is one synchronous
\* function, which the event loop runs to completion, one request at a time.
\* inflight lists the requests received: the body, the number of users in
\* the db at reception (usersSeen) and the status answered (0 while pending)
ReceiveRegister(body) ==
    /\ Len(inflight) < MaxInflight
    /\ inflight' = Append(inflight, [body |-> body, usersSeen |-> Len(users), status |-> 0])
    /\ UNCHANGED <<users, orders, supportTickets, clock, req, resp, registered>>

HandleRegister(i, now) ==
    LET body == inflight[i].body
        r == RegisterHandler(users, body, now)
    IN /\ inflight[i].status = 0
       /\ Len(r.users) <= MaxUsers
       /\ Room(r.users, orders, supportTickets)
       /\ inflight' = [inflight EXCEPT ![i].status = r.res.status]
       /\ users' = r.users
       /\ resp' = r.res
       /\ req' = Request("register", Undefined, body, Undefined)
       /\ clock' = IF r.res.status = 201 THEN now ELSE clock
       /\ registered' = IF r.res.status = 201 THEN registered \cup {Get(body, "contact")}
                        ELSE registered
       /\ UNCHANGED <<orders, supportTickets>>

\* ------------------------------------------------------------------ inputs
LastClock == FirstClock + MaxTicks
Readings == clock..LastClock

Alice == Str(<<"A">>)
Bob == Str(<<"B">>)
EmailA == Str(<<"a", "@", "x">>)
EmailB == Str(<<"b", "@", "x">>)
Mobile7 == Str(<<"7">>)
PasswordP == Str(<<"p">>)

RegisterBodies ==
    {[name |-> Alice, contact |-> c, password |-> PasswordP] : c \in {EmailA, Mobile7, Str(<<>>)}}
    \cup {[contact |-> EmailA, password |-> PasswordP],
          [name |-> Alice, contact |-> Mobile7, password |-> Null],
          [name |-> Alice, contact |-> Arr(<<Mobile7>>), password |-> PasswordP],
          [name |-> Alice, contact |-> Num(7), password |-> PasswordP]}

LoginBodies ==
    {[contact |-> c, password |-> PasswordP] : c \in {EmailA, Mobile7, Null}}
    \cup {[contact |-> c, password |-> AdminUser.password] : c \in {EmailA, AdminUser.email}}
    \cup {[password |-> p] : p \in {PasswordP, AdminUser.password}}
    \cup {[contact |-> Arr(<<Mobile7>>), password |-> PasswordP]}

UserIds == {Undefined, AdminId} \cup {NewUserId(n) : n \in FirstClock..LastClock}

UpdateBodies ==
    {[name |-> Bob, email |-> EmailB, address |-> Str(<<"h">>),
      isAdmin |-> Bool(TRUE), password |-> Str(<<"q">>)]}

OrderBodies ==
    {[item |-> Str(<<"c">>)],
     [item |-> Str(<<"c">>), userId |-> AdminId, id |-> Str(<<"X">>), status |-> Cancelled],
     Arr(<<Num(1)>>)}

OrderIds == {NewOrderId(n) : n \in FirstClock..LastClock} \cup {Str(<<"X">>)}

TicketBodies == {[message |-> Str(<<"h">>)], [message |-> Str(<<>>)], EmptyObject}

\* ------------------------------------------------------------ specification
Init ==
    /\ users = <<AdminUser>>
    /\ orders = <<>>
    /\ supportTickets = <<>>
    /\ clock = FirstClock
    /\ req = NoRequest
    /\ resp = NoResponse
    /\ registered = {}
    /\ inflight = <<>>

Next ==
    \/ \E body \in RegisterBodies, now \in Readings : Register(body, now)
    \/ \E body \in LoginBodies : Login(body)
    \/ \E userId \in UserIds : GetProfile(userId)
    \/ \E userId \in UserIds, body \in UpdateBodies : UpdateProfile(userId, body)
    \/ \E userId \in UserIds, body \in OrderBodies, now \in Readings : CreateOrder(userId, body, now)
    \/ \E userId \in UserIds : ListOrders(userId)
    \/ \E userId \in UserIds, orderId \in OrderIds : CancelOrder(userId, orderId)
    \/ \E userId \in UserIds : AdminStats(userId)
    \/ \E userId \in UserIds : AdminUsers(userId)
    \/ \E userId \in UserIds : AdminOrders(userId)
    \/ \E userId \in UserIds : ListTickets(userId)
    \/ \E userId \in UserIds, body \in TicketBodies, now \in Readings :
          \E created \in now..LastClock : \E at \in created..LastClock :
             SubmitTicket(userId, body, now, created, at)

Spec == Init /\ [][Next]_vars

\* only Register requests, received and handled in any interleaving
NextConc ==
    \/ \E body \in RegisterBodies : ReceiveRegister(body)
    \/ \E i \in DOMAIN inflight, now \in Readings : HandleRegister(i, now)

SpecConc == Init /\ [][NextConc]_vars

\* ================================================================= claims
\* the request passed input validation of Register
WellFormedRegister(r) ==
    /\ r.op = "register"
    /\ ~Falsy(Get(r.body, "name"))
    /\ ~Falsy(Get(r.body, "contact"))
    /\ ~Falsy(Get(r.body, "password"))

\* v is a string: the contact values and passwords of the specification are
\* strings (an email or a mobile number, an opaque secret)
IsString(v) == "t" \in DOMAIN v /\ v.t = "string"

\* the user records whose identifier is the x-user-id header
Matching(us, userId) == {i \in DOMAIN us : us[i].id = userId}

\* C1: no two user records share an identifier, so that an identity claim
\* names at most one user.  The identifier is the clock reading, and two
\* Register requests handled at the same reading get the same one.
C1_UniqueUserIds ==
    \A i, j \in DOMAIN users : users[i].id = users[j].id => i = j

\* C2 as stated: once a Register with contact c (an email or a mobile
\* number) has succeeded, every later Register with contact c answers 409 and
\* adds no user record.
C2_RegisteredContactConflictsForever ==
    [][(/\ WellFormedRegister(req')
        /\ IsString(req'.body.contact)
        /\ req'.body.contact \in registered)
          => (resp'.status = 409 /\ users' = users)]_vars

\* C2 amended: once a Register with contact c (an email or a mobile number)
\* has succeeded, a later Register with contact c answers 409 and adds no user
\* record as long as some user record still holds c in the field c belongs
\* to; that is always so for a mobile contact, which no operation rewrites.
C2_RegisteredContactConflictsWhileHeld ==
    [][(/\ WellFormedRegister(req')
        /\ IsString(req'.body.contact)
        /\ req'.body.contact \in registered
        /\ \/ ~Includes(req'.body.contact, "@")
           \/ \E i \in DOMAIN users : Get(users[i], "email") = req'.body.contact)
          => (resp'.status = 409 /\ users' = users)]_vars

\* a second Register with a registered mobile contact was answered 409 after
\* the first registrant had updated the profile
C2_Witness ==
    /\ WellFormedRegister(req)
    /\ req.body.contact = Mobile7
    /\ req.body.contact \in registered
    /\ resp.status = 409
    /\ \E i \in DOMAIN users : Get(users[i], "mobile") = Mobile7 /\ Get(users[i], "email") = EmailB

\* the request carries an x-user-id header that is the id of a stored user
Authenticated(r) == ~Falsy(r.userId) /\ Matching(users, r.userId) # {}

\* the user record the Authentication Resolver attaches: the first one whose
\* id is the header
Resolved(r) ==
    users[CHOOSE i \in Matching(users, r.userId) : \A j \in Matching(users, r.userId) : i <= j]

\* C3: an order's status is 'placed' or 'cancelled'; a new order is 'placed';
\* a status changes only from 'placed' to 'cancelled', in a Cancel Order of
\* the owning user answered 200; a Cancel Order of the owner on an order
\* already cancelled answers 400 and leaves the orders as they were.
C3_OrderStatusLifecycle ==
    /\ [](\A i \in DOMAIN orders : orders[i].status \in {Placed, Cancelled})
    /\ [][/\ \A i \in (DOMAIN orders') \ (DOMAIN orders) : orders'[i].status = Placed
          /\ \A i \in DOMAIN orders :
                orders'[i].status # orders[i].status
                   => /\ orders[i].status = Placed
                      /\ orders'[i].status = Cancelled
                      /\ req'.op = "cancelOrder"
                      /\ req'.userId = orders[i].userId
                      /\ req'.orderId = orders[i].id
                      /\ resp'.status = 200
          /\ (/\ req'.op = "cancelOrder"
              /\ Authenticated(req')
              /\ \E i \in DOMAIN orders : /\ orders[i].id = req'.orderId
                                          /\ orders[i].userId = req'.userId
                                          /\ orders[i].status = Cancelled)
                => (resp'.status = 400 /\ orders' = orders)]_vars

\* the owner's second Cancel Order on an order was answered 400
C3_Witness ==
    /\ req.op = "cancelOrder"
    /\ resp.status = 400
    /\ \E i \in DOMAIN orders : /\ orders[i].id = req.orderId
                                /\ orders[i].userId = req.userId
                                /\ orders[i].status = Cancelled

\* C4: a Cancel Order of authenticated user X leaves every order of another
\* owner as it was and answers 404 when X owns no order with the given id;
\* a List Orders of X returns only orders owned by X.
C4_OtherUsersOrdersUntouched ==
    [][/\ (req'.op = "cancelOrder" /\ Authenticated(req'))
             => /\ \A i \in DOMAIN orders :
                      orders[i].userId # req'.userId => orders'[i] = orders[i]
                /\ (~\E i \in DOMAIN orders : /\ orders[i].id = req'.orderId
                                              /\ orders[i].userId = req'.userId)
                      => resp'.status = 404
       /\ (req'.op = "listOrders" /\ Authenticated(req'))
             => /\ resp'.status = 200
                /\ \A k \in DOMAIN resp'.body.a : resp'.body.a[k].userId = req'.userId]_vars

\* X asked to cancel with the valid id of another user's placed order, was
\* answered 404 and the order is still placed
C4_Witness ==
    /\ req.op = "cancelOrder"
    /\ Authenticated(req)
    /\ resp.status = 404
    /\ \E i \in DOMAIN orders : /\ orders[i].id = req.orderId
                                /\ orders[i].userId # req.userId
                                /\ orders[i].status = Placed

AdminOps == {"adminStats", "adminUsers", "adminOrders"}

\* C5: an admin operation answers 401 when the header is absent or matches
\* no user, 403 when it resolves to a user whose admin flag is false, and
\* answers 200 with data only when the resolved user's admin flag is true.
C5_AdminGate ==
    req.op \in AdminOps =>
       /\ ~Authenticated(req) => resp.status = 401
       /\ (Authenticated(req) /\ Get(Resolved(req), "isAdmin") = Bool(FALSE)) => resp.status = 403
       /\ resp.status = 200 => (Authenticated(req) /\ Get(Resolved(req), "isAdmin") = Bool(TRUE))
       /\ resp.status \in {200, 401, 403}
       /\ resp.status # 200 => DOMAIN resp.body = {"message"}

\* a registered, non-admin user asked for an admin operation and got 403
C5_Witness ==
    /\ req.op \in AdminOps
    /\ Authenticated(req)
    /\ Get(Resolved(req), "isAdmin") = Bool(FALSE)
    /\ resp.status = 403

\* exact match of a stored value and a supplied one: the same string, or the
\* same value of another primitive type; an array or an object supplied with
\* a request is a value of its own and matches no stored one
ExactMatch(stored, supplied) == ~IsObject(stored) /\ stored = supplied

\* the request supplies the value: the property is present and not null
Supplied(v) == v \notin {Undefined, Null}

\* the stored users whose email or mobile is the contact supplied with the
\* Login body and whose password is the password supplied with it; a body
\* that supplies no contact, or no password, matches no user
CredentialsMatch(body) ==
    {i \in DOMAIN users :
        /\ Supplied(Get(body, "contact"))
        /\ Supplied(Get(body, "password"))
        /\ \/ ExactMatch(Get(users[i], "email"), Get(body, "contact"))
           \/ ExactMatch(Get(users[i], "mobile"), Get(body, "contact"))
        /\ ExactMatch(Get(users[i], "password"), Get(body, "password"))}

\* C6: Login answers 200 if and only if some stored user has email or mobile
\* equal to the supplied contact and password equal to the supplied password,
\* and 401 in every other case, a body that supplies no contact included; the
\* id returned is that of such a user; the stores are left as they were.
\* The code compares an absent contact with the mobile the seeded admin does
\* not have, finds them equal, and answers 200.
C6_LoginIffCredentialsMatch ==
    [][req'.op = "login"
          => /\ resp'.status = IF CredentialsMatch(req'.body) # {} THEN 200 ELSE 401
             /\ resp'.status = 200
                   => \E i \in CredentialsMatch(req'.body) : resp'.body.user.id = users[i].id
             /\ UNCHANGED stores]_vars

\* C7: under any interleaving of Register requests in flight together, no
\* two user records hold the same email or the same mobile, and of the
\* requests carrying one contact value (an email or a mobile number) at most
\* one is answered 201.
C7_ConcurrentRegisterOneWinner ==
    /\ \A i, j \in DOMAIN users :
          i # j => /\ (IsString(Get(users[i], "email")) /\ ~Falsy(Get(users[i], "email")))
                         => Get(users[i], "email") # Get(users[j], "email")
                   /\ (IsString(Get(users[i], "mobile")) /\ ~Falsy(Get(users[i], "mobile")))
                         => Get(users[i], "mobile") # Get(users[j], "mobile")
    /\ \A i, j \in DOMAIN inflight :
          (/\ i # j
           /\ IsString(Get(inflight[i].body, "contact"))
           /\ Get(inflight[i].body, "contact") = Get(inflight[j].body, "contact"))
             => ~(inflight[i].status = 201 /\ inflight[j].status = 201)

\* two requests with one contact raced: the loser was received while only
\* the seeded admin was stored, and was answered 409 after the winner's 201
C7_Witness ==
    \E i, j \in DOMAIN inflight :
       /\ i # j
       /\ Get(inflight[i].body, "contact") = Get(inflight[j].body, "contact")
       /\ inflight[i].status = 201
       /\ inflight[j].status = 409
       /\ inflight[j].usersSeen = 1

\* C8: a Get Profile answered 200 carries no password property, whatever
\* Register and Update Profile have made of the record.
C8_ProfileWithoutPassword ==
    (req.op = "getProfile" /\ resp.status = 200)
       => /\ "password" \notin DOMAIN resp.body
          /\ "password" \in DOMAIN Resolved(req)
          /\ resp.body.id = req.userId

\* the profile of a user who has updated the profile was fetched
C8_Witness ==
    /\ req.op = "getProfile"
    /\ resp.status = 200
    /\ Get(resp.body, "name") = Bob
    /\ req.userId # AdminId

Failures == {400, 401, 403, 404, 409}

\* C9: a request answered with a failure status leaves users, orders and
\* tickets exactly as they were.
C9_FailureLeavesStores ==
    [][resp'.status \in Failures => UNCHANGED stores]_vars

\* an Update Profile was refused while the stores held records besides the seed
C9_Witness ==
    /\ req.op = "updateProfile"
    /\ resp.status \in Failures
    /\ Len(users) + Len(orders) + Len(supportTickets) = MaxRecords

AuthOps == {"getProfile", "updateProfile", "createOrder", "listOrders", "cancelOrder",
            "adminStats", "adminUsers", "adminOrders", "listTickets", "submitTicket"}

\* C10: an operation other than Register and Login answers 401 and changes
\* no store when the header is absent, answers 401 with another message and
\* changes no store when no user has that id, and otherwise runs as exactly
\* the user whose id is the header: Get Profile answers that user's record.
C10_RunsAsTheClaimedUser ==
    [][req'.op \in AuthOps
          => /\ Falsy(req'.userId)
                   => /\ resp' = Res(401, [message |-> Lit("Unauthorized: User ID is required.")])
                      /\ UNCHANGED stores
             /\ (~Falsy(req'.userId) /\ Matching(users, req'.userId) = {})
                   => /\ resp' = Res(401, [message |-> Lit("Unauthorized: User not found.")])
                      /\ UNCHANGED stores
             /\ (req'.op = "getProfile" /\ ~Falsy(req'.userId))
                   => \A i \in Matching(users, req'.userId) :
                         resp' = Res(200, Rest(users[i], "password"))]_vars

\* C11: every ticket's thread is non-empty and its first entry has sender
\* role 'customer' and the ticket's message as text; a Submit Support Ticket
\* answered 201 appends one ticket with status 'open' and a thread of length
\* 1 holding the submitted message; no step removes or rewrites a thread.
C11_TicketThread ==
    /\ [](\A i \in DOMAIN supportTickets :
             LET thread == supportTickets[i].thread.a
             IN /\ Len(thread) >= 1
                /\ thread[1].from = Customer
                /\ Get(thread[1], "text") = Get(supportTickets[i], "message"))
    /\ [][/\ (req'.op = "submitTicket" /\ resp'.status = 201)
                => LET newTicket == supportTickets'[Len(supportTickets')]
                   IN /\ Len(supportTickets') = Len(supportTickets) + 1
                      /\ newTicket.status = Open
                      /\ Len(newTicket.thread.a) = 1
                      /\ Get(newTicket.thread.a[1], "text") = Get(req'.body, "message")
          /\ \A i \in DOMAIN supportTickets :
                /\ i \in DOMAIN supportTickets'
                /\ supportTickets'[i].thread = supportTickets[i].thread]_vars

\* a ticket with message 'h' was submitted and is stored
C11_Witness ==
    /\ req.op = "submitTicket"
    /\ resp.status = 201
    /\ Len(supportTickets) = 1
    /\ supportTickets[1].message = Str(<<"h">>)
    /\ supportTickets[1].thread.a[1].text = Str(<<"h">>)

\* C12: a Submit Support Ticket of an authenticated user whose message is
\* missing or empty answers 400 and creates no ticket.
C12_EmptyMessageRejected ==
    [][(/\ req'.op = "submitTicket"
        /\ Authenticated(req')
        /\ Get(req'.body, "message") \in {Undefined, Str(<<>>)})
          => (resp'.status = 400 /\ supportTickets' = supportTickets)]_vars

\* C13: a Create Order of authenticated user X answers 201, appends one order
\* and returns it; its owner is X and its status 'placed' whatever the body
\* carries; the other properties of the body are stored as supplied; the
\* orders already stored and the users are left as they were.
C13_CreateOrderStamps ==
    [][(req'.op = "createOrder" /\ Authenticated(req'))
          => /\ resp'.status = 201
             /\ Len(orders') = Len(orders) + 1
             /\ \A i \in DOMAIN orders : orders'[i] = orders[i]
             /\ users' = users
             /\ LET order == orders'[Len(orders')]
                    others == (DOMAIN Props(req'.body)) \ {"userId", "id", "status"}
                IN /\ resp'.body = order
                   /\ order.userId = req'.userId
                   /\ order.status = Placed
                   /\ DOMAIN order = others \cup {"userId", "id", "status"}
                   /\ \A k \in others : order[k] = Props(req'.body)[k]]_vars

\* an order was created from a body that carried userId, id and status of
\* its own, by a user who is not the one the body names
C13_Witness ==
    /\ req.op = "createOrder"
    /\ resp.status = 201
    /\ Get(req.body, "status") = Cancelled
    /\ Get(req.body, "userId") # req.userId
    /\ orders[Len(orders)].userId = req.userId
    /\ orders[Len(orders)].status = Placed

\* C14: no two orders share an identifier, so that every placed order can be
\* cancelled by its owner: the owner's Cancel Order with the order's id
\* cancels that very order.
C14_UniqueOrderIds ==
    /\ \A i, j \in DOMAIN orders : orders[i].id = orders[j].id => i = j
    /\ \A i \in DOMAIN orders :
          orders[i].status = Placed
             => CancelOrderHandler(orders, [id |-> orders[i].userId], orders[i].id).orders[i].status
                   = Cancelled

\* the index of the user record the Authentication Resolver attaches
ResolvedIndex(r) ==
    CHOOSE i \in Matching(users, r.userId) : \A j \in Matching(users, r.userId) : i <= j

ProfileFields == {"name", "email", "address", "profilePic"}

\* C15: an Update Profile answered 200 sets name, email, address and
\* profilePic of the caller's record X to the values of the body, undefined
\* for a property the body omits, and leaves the other properties of X, every
\* other user record, the orders and the tickets as they were.
C15_UpdateProfileFrame ==
    [][(req'.op = "updateProfile" /\ resp'.status = 200)
          => LET x == ResolvedIndex(req')
             IN /\ DOMAIN users' = DOMAIN users
                /\ DOMAIN users'[x] = (DOMAIN users[x]) \cup ProfileFields
                /\ \A k \in ProfileFields : users'[x][k] = Get(req'.body, k)
                /\ \A k \in (DOMAIN users[x]) \ ProfileFields : users'[x][k] = users[x][k]
                /\ \A j \in (DOMAIN users) \ {x} : users'[j] = users[j]
                /\ UNCHANGED <<orders, supportTickets>>]_vars

\* a registered user updated the profile with a body that omits profilePic
\* and carries a password: profilePic is undefined, the password is kept
C15_Witness ==
    /\ req.op = "updateProfile"
    /\ resp.status = 200
    /\ req.userId # AdminId
    /\ "profilePic" \notin DOMAIN req.body
    /\ users[ResolvedIndex(req)].profilePic = Undefined
    /\ users[ResolvedIndex(req)].password = PasswordP
    /\ users[ResolvedIndex(req)].name = Bob

\* C16: no step removes a user, an order or a ticket; the identifier of a
\* user and the identifier and owner of an order never change; the owner of
\* every order and of every ticket is the id of a stored user.
C16_StoresOnlyGrow ==
    /\ [](/\ \A i \in DOMAIN orders : Matching(users, orders[i].userId) # {}
          /\ \A i \in DOMAIN supportTickets : Matching(users, supportTickets[i].userId) # {})
    /\ [][/\ Len(users') >= Len(users)
          /\ Len(orders') >= Len(orders)
          /\ Len(supportTickets') >= Len(supportTickets)
          /\ \A i \in DOMAIN users : users'[i].id = users[i].id
          /\ \A i \in DOMAIN orders : /\ orders'[i].id = orders[i].id
                                      /\ orders'[i].userId = orders[i].userId
          /\ \A i \in DOMAIN supportTickets :
                /\ supportTickets'[i].id = supportTickets[i].id
                /\ supportTickets'[i].userId = supportTickets[i].userId]_vars

\* the order of a registered user went through a Cancel Order and is stored
C16_Witness ==
    \E i \in DOMAIN orders : /\ orders[i].userId # AdminId
                             /\ orders[i].status = Cancelled
                             /\ Matching(users, orders[i].userId) # {}

\* C17: a List Orders of authenticated user X answers 200 with exactly the
\* orders whose owner is X, each once, in the order of the store, each as it
\* is stored now, and leaves the stores as they were.
C17_ListOrdersExact ==
    [][(req'.op = "listOrders" /\ Authenticated(req'))
          => LET own == {i \in DOMAIN orders : orders[i].userId = req'.userId}
                 list == resp'.body.a
             IN /\ resp'.status = 200
                /\ Len(list) = Cardinality(own)
                /\ \E f \in [1..Len(list) -> own] :
                      /\ \A k, l \in 1..Len(list) : k < l => f[k] < f[l]
                      /\ \A k \in 1..Len(list) : list[k] = orders[f[k]]
                /\ UNCHANGED stores]_vars

\* two orders of one user were listed, the second of them cancelled
C17_Witness ==
    /\ req.op = "listOrders"
    /\ resp.status = 200
    /\ Len(resp.body.a) = 2
    /\ resp.body.a[1].status = Placed
    /\ resp.body.a[2].status = Cancelled

\* the JSON value v has a property named k, at any depth
RECURSIVE HasProperty(_, _)
HasProperty(v, k) ==
    IF "t" \in DOMAIN v
    THEN v.t = "array" /\ \E i \in DOMAIN v.a : HasProperty(v.a[i], k)
    ELSE k \in DOMAIN v \/ \E x \in DOMAIN v : HasProperty(v[x], k)

\* C18: no response, of any operation, carries a password.
C18_NoPasswordInResponse == ~HasProperty(resp.body, "password")

\* C19: no step changes the admin flag of a user; the flag of a user made by
\* Register is false; the users that pass the Authorization Gate are exactly
\* the admin of the initial store.
C19_AdminFlagFixed ==
    /\ [](/\ \A i \in DOMAIN users : Get(users[i], "isAdmin") = Bool(i = 1)
          /\ {i \in DOMAIN users : adminMiddleware(users[i])} = {1})
    /\ [][\A i \in DOMAIN users : Get(users'[i], "isAdmin") = Get(users[i], "isAdmin")]_vars

\* a registered user updated the profile with a body carrying isAdmin: true
\* and is still no admin
C19_Witness ==
    /\ req.op = "updateProfile"
    /\ resp.status = 200
    /\ req.userId # AdminId
    /\ Get(req.body, "isAdmin") = Bool(TRUE)
    /\ Get(users[ResolvedIndex(req)], "isAdmin") = Bool(FALSE)
    /\ Get(users[ResolvedIndex(req)], "email") = EmailB

\* C20: a Login whose body has no contact, or a null one, answers 401
\* whatever the password.
C20_NoLoginWithoutContact ==
    (req.op = "login" /\ Get(req.body, "contact") \in {Undefined, Null}) => resp.status = 401

====
